---- MODULE Spec2Model ----
(***************************************************************************)
(* The favorites subsystem of arts-tool-brand: the FavoriteProvider        *)
(* (src/src/context/FavoriteContext.tsx, current variant, lines 62-121)    *)
(* and the FavoritesScreen with edit mode (src/unnamed/part_000, lines     *)
(* 1-242), over an AsyncStorage whose operations on the "favorites" key    *)
(* complete in issuance order and may fail, with the catalog cache that    *)
(* fetchArtTools of HomeScreen writes (src/unnamed/part_001, lines         *)
(* 313-329).                                                               *)
(***************************************************************************)
EXTENDS Naturals, Sequences, FiniteSets

(* ------------------------------ bounds --------------------------------- *)

\* Storage operations on "favorites" that may be in flight or still owed by
\* queued state updates at one time.
MaxInflight == 2

\* Loads of the Favorites screen that may be under way at one time.
MaxLoads == 1

\* Kinds of rejection, of a write or of the catalog request, that one run sees.
MaxFailureKinds == 1

\* Item identifiers: the strings a caller of the context passes as an id.
Ids == {"a", "b", "c"}

\* The ids of the tools the catalog API lists: the ones the Home and Detail
\* screens show, and so the ones their favorite buttons toggle.
ListedIds == {"a", "b"}

(* ------------------------- sequences helpers --------------------------- *)

\* Array.prototype.includes
Includes(s, x) == \E i \in 1..Len(s) : s[i] = x

\* Array.prototype.filter(e => e !== x)
Without(s, x) == SelectSeq(s, LAMBDA e : e # x)

\* Array.prototype.filter(e => !ids.includes(e))
WithoutAll(s, ids) == SelectSeq(s, LAMBDA e : ~Includes(ids, e))

Range(s) == {s[i] : i \in 1..Len(s)}

NoDup(s) == \A i, j \in 1..Len(s) : s[i] = s[j] => i = j

\* Every duplicate-free array over the listed ids.
IdArrays ==
  {s \in UNION {[1..n -> ListedIds] : n \in 0..Cardinality(ListedIds)} : NoDup(s)}

(* ------------------------------- JSON ---------------------------------- *)
\* A JSON text is a sequence of tokens: "[", "]", ",", and one token per
\* string literal.  Any other token is a bare word, which JSON does not allow.

\* AsyncStorage.getItem resolves null for a missing key; null is falsy.
NoValue == <<>>

\* if (storedFavorites) / if (favorites) / if (allArtTools)
Truthy(text) == text # NoValue

RECURSIVE Joined(_)
Joined(s) ==
  IF Len(s) = 0 THEN <<>>
  ELSE IF Len(s) = 1 THEN <<s[1]>>
  ELSE <<s[1], ",">> \o Joined(Tail(s))

\* JSON.stringify of an array of strings
JSONStringify(s) == <<"[">> \o Joined(s) \o <<"]">>

IsStringToken(tok) == tok \in Ids

\* JSON.parse succeeds on an array of string literals.
ParseOk(text) ==
  /\ Len(text) >= 2
  /\ text[1] = "["
  /\ text[Len(text)] = "]"
  /\ LET inner == SubSeq(text, 2, Len(text) - 1) IN
       \/ inner = <<>>
       \/ /\ Len(inner) % 2 = 1
          /\ \A i \in 1..Len(inner) :
               IF i % 2 = 1 THEN IsStringToken(inner[i]) ELSE inner[i] = ","

\* JSON.parse: the array, when the text parses (SyntaxError otherwise).
JSONParse(text) ==
  LET inner == SubSeq(text, 2, Len(text) - 1) IN
  [i \in 1..((Len(inner) + 1) \div 2) |-> inner[2 * i - 1]]

\* A stored value no JSON.parse accepts (the scenario value "not json").
NotJson == <<"not", "json">>

(* ------------------------------- state --------------------------------- *)

VARIABLES
  favorites,         \* FavoriteProvider: state of useState<string[]>([])
  rendered,          \* the `favorites` the last render put in the context value
  updQueue,          \* state updates dispatched and not yet processed by a render
  dirty,             \* the provider has an update scheduled and not yet rendered
  stored,            \* AsyncStorage value under "favorites" (NoValue: no key)
  artTools,          \* AsyncStorage value under "artTools" (the catalog cache)
  fetching,          \* HomeScreen: fetchArtTools of the mount effect has not finished
  inflight,          \* operations on "favorites" issued and not completed, oldest first
  catReads,          \* screen loads awaiting getItem('artTools'), with their favoriteIds
  favoriteArtTools,  \* FavoritesScreen: displayed entries
  editMode,          \* FavoritesScreen: edit mode flag
  selectedItems,     \* FavoritesScreen: selected ids
  modalVisible,      \* FavoritesScreen: confirmation modal shown
  focused,           \* the Favorites tab has focus
  log,               \* messages given to console.error
  surfaced,          \* an exception left a handler uncaught
  parity,            \* history: per id, single-id toggleFavorite calls mod 2
  expected           \* history: the calls so far applied one after the other

storeVars == <<favorites, rendered, updQueue, dirty>>
catalogVars == <<artTools, fetching>>
storageVars == <<stored, catalogVars, inflight, catReads>>
screenVars == <<favoriteArtTools, editMode, selectedItems, modalVisible, focused>>
historyVars == <<parity, expected>>
vars == <<storeVars, storageVars, screenVars, log, surfaced, historyVars>>

(* ------------------------ AsyncStorage operations ---------------------- *)

\* A pending operation: who issued it, the text a set writes, and what the
\* continuation after the await still holds in its closure (ctx).
NoCtx == [kind |-> "none", arg |-> <<>>, prev |-> <<>>]

SetItem(who, text, ctx) ==
  [op |-> "set", who |-> who, val |-> text, ctx |-> ctx]

GetItem(who) ==
  [op |-> "get", who |-> who, val |-> NoValue, ctx |-> NoCtx]

\* Room for n more operations, counting one per queued update and one per
\* screen load that awaits the catalog.
Room(n) == Len(inflight) + Len(updQueue) + Len(catReads) + n <= MaxInflight

\* Room for the n writes of a delete handler: a load of the screen that
\* already awaits the catalog, a read of another key, does not hold a delete
\* back, so a delete may be made while a load is still under way.
WriteRoom(n) == Len(inflight) + Len(updQueue) + n <= MaxInflight

\* Loads of the screen that have not finished: those awaiting
\* getItem('favorites') and those awaiting getItem('artTools').
LoadsPending ==
  Len(SelectSeq(inflight, LAMBDA o : o.who = "screen")) + Len(catReads)

(* --------------------------- FavoriteProvider -------------------------- *)

\* A state update: toggleFavorite(id) is [kind "toggle", arg <<id>>],
\* toggleFavorite(ids) is [kind "batch", arg ids], setFavorites(value) of
\* loadFavorites is [kind "set", arg value].
ToggleOf(id) == [kind |-> "toggle", arg |-> <<id>>]
BatchOf(ids) == [kind |-> "batch", arg |-> ids]
SetOf(value) == [kind |-> "set", arg |-> value]

\* The earlier variant reads the `favorites` of the render that created the
\* handler instead of the state the update applies to.
PrevFavoritesStale(hookState, renderedState) == renderedState

\* prevFavorites: the state the updater function receives.
PrevFavorites(hookState, renderedState) == hookState

\* A batch that toggles each id instead of removing.
BatchRemovalToggles(prev, ids) ==
  WithoutAll(prev, ids) \o SelectSeq(ids, LAMBDA e : ~Includes(prev, e))

\* Array.isArray(id) branch: batch removal.
BatchRemoval(prev, ids) == WithoutAll(prev, ids)

\* A single toggle that never removes.
SingleToggleAppends(prev, id) == Append(prev, id)

\* A single toggle that removes by moving the last id into the freed place.
SingleToggleSwapRemoves(prev, id) ==
  IF Includes(prev, id)
  THEN LET i == CHOOSE k \in 1..Len(prev) : prev[k] = id IN
       [j \in 1..(Len(prev) - 1) |-> IF j = i THEN prev[Len(prev)] ELSE prev[j]]
  ELSE Append(prev, id)

\* else branch: single item toggle.
SingleToggle(prev, id) ==
  IF Includes(prev, id) THEN Without(prev, id) ELSE Append(prev, id)

\* A hydration that adds the stored ids to the current ones.
UpdaterMerges(prev, u) ==
  IF u.kind = "batch" THEN BatchRemoval(prev, u.arg)
  ELSE IF u.kind = "toggle" THEN SingleToggle(prev, u.arg[1])
  ELSE prev \o u.arg

\* updatedFavorites of the updater (or the plain value of setFavorites(value)).
Updater(prev, u) ==
  IF u.kind = "batch" THEN BatchRemoval(prev, u.arg)
  ELSE IF u.kind = "toggle" THEN SingleToggle(prev, u.arg[1])
  ELSE u.arg

\* An updater that writes the set it was given instead of the one it returns.
PersistPrevious(prev, updated, u) ==
  IF u.kind = "set" THEN <<>>
  ELSE <<SetItem("store", JSONStringify(prev),
                 [kind |-> u.kind, arg |-> u.arg, prev |-> prev])>>

\* AsyncStorage.setItem('favorites', JSON.stringify(updatedFavorites)) inside
\* the updater, whose closure holds id and prevFavorites; setFavorites(value)
\* writes nothing.
Persist(prev, updated, u) ==
  IF u.kind = "set" THEN <<>>
  ELSE <<SetItem("store", JSONStringify(updated),
                 [kind |-> u.kind, arg |-> u.arg, prev |-> prev])>>

\* Processing the queued updates in order, each on the result of the one before.
RECURSIVE RunQueue(_, _, _)
RunQueue(state, queue, writes) ==
  IF queue = <<>> THEN [fav |-> state, writes |-> writes]
  ELSE LET prev == PrevFavorites(state, rendered)
           updated == Updater(prev, Head(queue)) IN
       RunQueue(updated, Tail(queue), writes \o Persist(prev, updated, Head(queue)))

\* When the runtime may call the updater: with an update already scheduled it
\* is queued for the render; with nothing scheduled the runtime either
\* computes the update at once, inside the call, or queues it as well.
EagerChoices == IF dirty THEN {FALSE} ELSE BOOLEAN

\* setFavorites(...): computed at once (the updater runs, and issues its write,
\* inside the call) or queued for the render.
Dispatch(u, eager) ==
  IF eager
  THEN LET prev == PrevFavorites(favorites, rendered)
           updated == Updater(prev, u) IN
       [fav |-> updated, queue |-> updQueue, writes |-> Persist(prev, updated, u)]
  ELSE [fav |-> favorites, queue |-> Append(updQueue, u), writes |-> <<>>]

\* The value the provider will hold once the queue is processed.
Settled == RunQueue(favorites, updQueue, <<>>).fav

(* ------------------------------ history -------------------------------- *)

\* The mutations on the abstract set: remove the members of ids, flip one id.
MinusIds(s, ids) == SelectSeq(s, LAMBDA e : e \notin Range(ids))

Flip(s, id) ==
  IF id \in Range(s) THEN SelectSeq(s, LAMBDA e : e # id) ELSE s \o <<id>>

ApplyCall(s, u) ==
  IF u.kind = "batch" THEN MinusIds(s, u.arg)
  ELSE IF u.kind = "toggle" THEN Flip(s, u.arg[1])
  ELSE u.arg

\* What a dispatched update u adds to the history.  The parity of an id
\* counts its single-id toggles since the set was empty or last replaced: a
\* batch removal of the id restarts it at 0, setFavorites(value) restarts it
\* at 1 for the ids of value and at 0 for the others.
History(u) ==
  /\ parity' = IF u.kind = "toggle" THEN [parity EXCEPT ![u.arg[1]] = 1 - @]
               ELSE IF u.kind = "batch"
               THEN [id \in Ids |-> IF id \in Range(u.arg) THEN 0 ELSE parity[id]]
               ELSE [id \in Ids |-> IF id \in Range(u.arg) THEN 1 ELSE 0]
  /\ expected' = ApplyCall(expected, u)

\* The messages logged when a write or the catalog request rejects.
Rejections ==
  {"Error updating favorites", "Error deleting item", "Error deleting items",
   "Error fetching art tools"}

\* A rejection logging msg may happen: any number of times once its kind has
\* been seen, and as a new kind while fewer than MaxFailureKinds have been.
MayReject(msg) ==
  msg \in log \/ Cardinality(log \cap Rejections) < MaxFailureKinds

(* -------------------------------- Init --------------------------------- *)

\* What an earlier session can have left under "favorites": nothing, a text
\* that is not JSON, or a serialized duplicate-free array.
InitialStored ==
  {NoValue, NotJson, JSONStringify(<<"a">>), JSONStringify(<<"b", "a">>)}

\* The catalog cache: absent, the whole catalog, or a catalog without "b".
InitialArtTools == {NoValue, JSONStringify(<<"a", "b">>), JSONStringify(<<"a">>)}

\* After construction: useState initial values, and the provider's mount
\* effect has called loadFavorites, whose getItem is pending.
Init ==
  /\ favorites = <<>>
  /\ rendered = <<>>
  /\ updQueue = <<>>
  /\ dirty = FALSE
  /\ stored \in InitialStored
  /\ artTools \in InitialArtTools
  /\ fetching = TRUE
  /\ inflight = <<GetItem("provider")>>
  /\ catReads = <<>>
  /\ favoriteArtTools = <<>>
  /\ editMode = FALSE
  /\ selectedItems = <<>>
  /\ modalVisible = FALSE
  /\ focused = FALSE
  /\ log = {}
  /\ surfaced = FALSE
  /\ parity = [id \in Ids |-> 0]
  /\ expected = <<>>

(* ----------------------- FavoriteProvider actions ---------------------- *)

\* A scheduled render runs before the next storage completion or the next
\* user event is delivered; only further toggleFavorite calls (back-to-back,
\* before the re-render) find an update still scheduled.
Rendered == ~dirty

IsHead(op, who) ==
  /\ inflight # <<>>
  /\ Head(inflight).op = op
  /\ Head(inflight).who = who

\* The state changes of one setFavorites call with update u: the pending
\* operations become `base`, then the write the updater issues when it runs
\* inside the call, then the operations `more` the caller issues after it.
Call(u, base, more) ==
  \E eager \in EagerChoices :
    LET d == Dispatch(u, eager) IN
    /\ favorites' = d.fav
    /\ updQueue' = d.queue
    /\ dirty' = TRUE
    /\ rendered' = rendered
    /\ inflight' = base \o d.writes \o more
    /\ History(u)

\* toggleFavorite(id) from the Home or Detail screen.
toggleFavorite(id) ==
  /\ ~focused
  /\ Room(1)
  /\ Call(ToggleOf(id), inflight, <<>>)
  /\ UNCHANGED <<stored, catalogVars, catReads, screenVars, log, surfaced>>

\* toggleFavorite(ids) from any caller of the context.
toggleFavoriteBatch(ids) ==
  /\ Room(1)
  /\ Call(BatchOf(ids), inflight, <<>>)
  /\ UNCHANGED <<stored, catalogVars, catReads, screenVars, log, surfaced>>

\* The provider renders: queued updates are processed in order.
Render ==
  /\ dirty
  /\ LET r == RunQueue(favorites, updQueue, <<>>) IN
       /\ favorites' = r.fav
       /\ rendered' = r.fav
       /\ inflight' = inflight \o r.writes
  /\ updQueue' = <<>>
  /\ dirty' = FALSE
  /\ UNCHANGED <<stored, catalogVars, catReads, screenVars, log, surfaced, historyVars>>

\* loadFavorites without the try/catch.
loadFavoritesNoTry(text) ==
  IF ~Truthy(text) THEN "skip" ELSE IF ParseOk(text) THEN "set" ELSE "thrown"

\* loadFavorites after getItem resolved with text: no value is skipped, a
\* parsed value is set, a SyntaxError is caught and logged.
loadFavoritesOutcome(text) ==
  IF ~Truthy(text) THEN "skip" ELSE IF ParseOk(text) THEN "set" ELSE "caught"

\* loadFavorites of the provider resumes after its getItem resolved.
loadFavorites ==
  /\ Rendered
  /\ IsHead("get", "provider")
  /\ LET outcome == loadFavoritesOutcome(stored) IN
       /\ IF outcome = "set"
          THEN /\ Call(SetOf(JSONParse(stored)), Tail(inflight), <<>>)
               /\ UNCHANGED <<log, surfaced>>
          ELSE /\ log' = IF outcome = "caught"
                         THEN log \cup {"Error loading favorites"} ELSE log
               /\ surfaced' = (surfaced \/ outcome = "thrown")
               /\ inflight' = Tail(inflight)
               /\ UNCHANGED <<storeVars, historyVars>>
  /\ UNCHANGED <<stored, catalogVars, catReads, screenVars>>

\* getItem('favorites') of the provider's loadFavorites rejects: the catch
\* logs and the state keeps its value.
loadFavoritesFailed ==
  /\ Rendered
  /\ IsHead("get", "provider")
  /\ inflight' = Tail(inflight)
  /\ log' = log \cup {"Error loading favorites"}
  /\ UNCHANGED <<storeVars, stored, catalogVars, catReads, screenVars, surfaced,
                 historyVars>>

\* A .catch that issues the write again.
PersistCatchRetries(w) == [logged |-> {"Error updating favorites"}, again |-> <<w>>]

\* .catch((error) => console.error('Error updating favorites:', error))
PersistCatch(w) == [logged |-> {"Error updating favorites"}, again |-> <<>>]

\* The write of an updater completes.
persistDone ==
  /\ Rendered
  /\ IsHead("set", "store")
  /\ stored' = Head(inflight).val
  /\ inflight' = Tail(inflight)
  /\ UNCHANGED <<storeVars, catalogVars, catReads, screenVars, log, surfaced, historyVars>>

\* The write of an updater rejects.
persistFailed ==
  /\ Rendered
  /\ MayReject("Error updating favorites")
  /\ IsHead("set", "store")
  /\ LET c == PersistCatch(Head(inflight)) IN
       /\ log' = log \cup c.logged
       /\ inflight' = Tail(inflight) \o c.again
  /\ UNCHANGED <<storeVars, stored, catalogVars, catReads, screenVars, surfaced,
                 historyVars>>

(* ------------------------- FavoritesScreen actions --------------------- *)

\* A catalog record, reduced to the field the screen reads.
ArtTool(id) == [id |-> id]

\* JSON.parse(allArtTools)
ParseArtTools(text) ==
  LET ids == JSONParse(text) IN [i \in 1..Len(ids) |-> ArtTool(ids[i])]

\* items.map((tool) => tool.id)
IdsOf(items) == [i \in 1..Len(items) |-> items[i].id]

Displayed(id) == Includes(IdsOf(favoriteArtTools), id)

\* useFocusEffect callback: loadFavorites() up to its first await, setEditMode(false).
focus ==
  /\ Rendered
  /\ ~focused
  /\ Room(1)
  /\ LoadsPending < MaxLoads
  /\ focused' = TRUE
  /\ editMode' = FALSE
  /\ inflight' = Append(inflight, GetItem("screen"))
  /\ UNCHANGED <<storeVars, stored, catalogVars, catReads, favoriteArtTools,
                 selectedItems, modalVisible, log, surfaced, historyVars>>

\* useFocusEffect cleanup: setEditMode(false).
blur ==
  /\ Rendered
  /\ focused
  /\ ~modalVisible
  /\ focused' = FALSE
  /\ editMode' = FALSE
  /\ UNCHANGED <<storeVars, storageVars, favoriteArtTools, selectedItems,
                 modalVisible, log, surfaced, historyVars>>

\* loadFavorites of the screen resumes after getItem('favorites') resolved.
screenLoadFavorites ==
  /\ Rendered
  /\ IsHead("get", "screen")
  /\ inflight' = Tail(inflight)
  /\ LET outcome == loadFavoritesOutcome(stored) IN
       /\ catReads' = IF outcome = "set"
                      THEN Append(catReads, JSONParse(stored)) ELSE catReads
       /\ log' = IF outcome = "caught"
                 THEN log \cup {"Error loading favorites"} ELSE log
       /\ surfaced' = (surfaced \/ outcome = "thrown")
  /\ UNCHANGED <<storeVars, stored, catalogVars, screenVars, historyVars>>

\* getItem('favorites') of the screen's loadFavorites rejects: the catch logs,
\* the catalog is not read and the list keeps its value.
screenLoadFavoritesFailed ==
  /\ Rendered
  /\ IsHead("get", "screen")
  /\ inflight' = Tail(inflight)
  /\ log' = log \cup {"Error loading favorites"}
  /\ UNCHANGED <<storeVars, stored, catalogVars, catReads, screenVars, surfaced,
                 historyVars>>

\* artTools.filter((tool) => favoriteIds.includes(tool.id))
FavoriteItems(tools, favoriteIds) ==
  SelectSeq(tools, LAMBDA tool : Includes(favoriteIds, tool.id))

\* loadFavorites of the screen resumes after getItem('artTools') resolved.
screenLoadCatalog ==
  /\ Rendered
  /\ catReads # <<>>
  /\ catReads' = Tail(catReads)
  /\ favoriteArtTools' =
       IF Truthy(artTools) /\ ParseOk(artTools)
       THEN FavoriteItems(ParseArtTools(artTools), Head(catReads))
       ELSE favoriteArtTools
  /\ log' = IF Truthy(artTools) /\ ~ParseOk(artTools)
            THEN log \cup {"Error loading favorites"} ELSE log
  /\ UNCHANGED <<storeVars, stored, catalogVars, inflight, editMode, selectedItems,
                 modalVisible, focused, surfaced, historyVars>>

\* getItem('artTools') of the screen's loadFavorites rejects: the catch logs
\* and setFavoriteArtTools is not called.
screenLoadCatalogFailed ==
  /\ Rendered
  /\ catReads # <<>>
  /\ catReads' = Tail(catReads)
  /\ log' = log \cup {"Error loading favorites"}
  /\ UNCHANGED <<storeVars, stored, catalogVars, inflight, screenVars, surfaced,
                 historyVars>>

\* What the catalog API may answer: the whole catalog, or one without "a".
Catalogs == {<<"a", "b">>, <<"b">>}

\* fetchArtTools of HomeScreen, started by its mount effect: the API answered
\* with data and AsyncStorage.setItem('artTools', JSON.stringify(data)) resolved.
fetchArtTools(data) ==
  /\ Rendered
  /\ fetching
  /\ fetching' = FALSE
  /\ artTools' = JSONStringify(data)
  /\ UNCHANGED <<storeVars, stored, inflight, catReads, screenVars, log, surfaced,
                 historyVars>>

\* fetchArtTools when the request or the write rejects: the catch logs.
fetchArtToolsFailed ==
  /\ Rendered
  /\ fetching
  /\ MayReject("Error fetching art tools")
  /\ fetching' = FALSE
  /\ log' = log \cup {"Error fetching art tools"}
  /\ UNCHANGED <<storeVars, stored, artTools, inflight, catReads, screenVars,
                 surfaced, historyVars>>

\* The header button, present while the list is not empty: setEditMode(!editMode).
toggleEdit ==
  /\ Rendered
  /\ focused
  /\ ~modalVisible
  /\ Len(favoriteArtTools) > 0
  /\ editMode' = ~editMode
  /\ UNCHANGED <<storeVars, storageVars, favoriteArtTools, selectedItems,
                 modalVisible, focused, log, surfaced, historyVars>>

\* The checkbox of a displayed item, rendered in edit mode.
toggleSelectItem(itemId) ==
  /\ Rendered
  /\ focused
  /\ ~modalVisible
  /\ editMode
  /\ Displayed(itemId)
  /\ selectedItems' = IF Includes(selectedItems, itemId)
                      THEN Without(selectedItems, itemId)
                      ELSE Append(selectedItems, itemId)
  /\ UNCHANGED <<storeVars, storageVars, favoriteArtTools, editMode,
                 modalVisible, focused, log, surfaced, historyVars>>

\* The Check All / Uncheck All button, rendered in edit mode.
selectAllItems ==
  /\ Rendered
  /\ focused
  /\ ~modalVisible
  /\ editMode
  /\ selectedItems' = IF Len(selectedItems) = Len(favoriteArtTools)
                      THEN <<>> ELSE IdsOf(favoriteArtTools)
  /\ UNCHANGED <<storeVars, storageVars, favoriteArtTools, editMode,
                 modalVisible, focused, log, surfaced, historyVars>>

\* A Delete Selected button that is never disabled.
DeleteSelectedAlwaysEnabled == FALSE

\* disabled={selectedItems.length === 0}
DeleteSelectedDisabled == Len(selectedItems) = 0

\* The Delete Selected button, rendered in edit mode: setModalVisible(true).
requestDelete ==
  /\ Rendered
  /\ focused
  /\ ~modalVisible
  /\ editMode
  /\ ~DeleteSelectedDisabled
  /\ modalVisible' = TRUE
  /\ UNCHANGED <<storeVars, storageVars, favoriteArtTools, editMode,
                 selectedItems, focused, log, surfaced, historyVars>>

\* A Cancel that also ends the selection, as the end of a bulk delete does.
cancelDeleteEndsSelection ==
  /\ Rendered
  /\ modalVisible
  /\ modalVisible' = FALSE
  /\ selectedItems' = <<>>
  /\ editMode' = FALSE
  /\ UNCHANGED <<storeVars, storageVars, favoriteArtTools, focused, log,
                 surfaced, historyVars>>

\* The modal's Cancel button and onRequestClose.
cancelDelete ==
  /\ Rendered
  /\ modalVisible
  /\ modalVisible' = FALSE
  /\ UNCHANGED <<storeVars, storageVars, favoriteArtTools, editMode,
                 selectedItems, focused, log, surfaced, historyVars>>

\* A filter that keeps the swiped entry and drops the others.
RemoveEntryKeepsOnly(items, itemId) ==
  SelectSeq(items, LAMBDA tool : tool.id = itemId)

\* favoriteArtTools.filter((tool) => tool.id !== itemId)
RemoveEntry(items, itemId) ==
  SelectSeq(items, LAMBDA tool : tool.id # itemId)

\* deleteItem(itemId) up to its await: the swipe delete button of a displayed item.
deleteItem(itemId) ==
  /\ focused
  /\ ~modalVisible
  /\ Displayed(itemId)
  /\ WriteRoom(2)
  /\ LET updatedFavorites == RemoveEntry(favoriteArtTools, itemId) IN
       /\ favoriteArtTools' = updatedFavorites
       /\ Call(ToggleOf(itemId), inflight,
               <<SetItem("deleteItem", JSONStringify(IdsOf(updatedFavorites)),
                         [kind |-> "single", arg |-> <<itemId>>, prev |-> <<>>])>>)
  /\ UNCHANGED <<stored, catalogVars, catReads, editMode, selectedItems,
                 modalVisible, focused, log, surfaced>>

\* deleteItem resumes after its setItem resolved: nothing is left to do.
deleteItemSaved ==
  /\ Rendered
  /\ IsHead("set", "deleteItem")
  /\ stored' = Head(inflight).val
  /\ inflight' = Tail(inflight)
  /\ UNCHANGED <<storeVars, catalogVars, catReads, screenVars, log, surfaced, historyVars>>

\* deleteItem's setItem rejects: caught and logged.
deleteItemSaveFailed ==
  /\ Rendered
  /\ MayReject("Error deleting item")
  /\ IsHead("set", "deleteItem")
  /\ inflight' = Tail(inflight)
  /\ log' = log \cup {"Error deleting item"}
  /\ UNCHANGED <<storeVars, stored, catalogVars, catReads, screenVars, surfaced,
                 historyVars>>

\* deleteSelectedItems up to its await: the modal's Yes, Delete button.
deleteSelectedItems ==
  /\ modalVisible
  /\ WriteRoom(2)
  /\ LET updatedFavorites ==
           SelectSeq(favoriteArtTools, LAMBDA tool : ~Includes(selectedItems, tool.id)) IN
       /\ favoriteArtTools' = updatedFavorites
       /\ Call(BatchOf(selectedItems), inflight,
               <<SetItem("deleteSelectedItems", JSONStringify(IdsOf(updatedFavorites)),
                         [kind |-> "bulk", arg |-> IdsOf(updatedFavorites), prev |-> <<>>])>>)
  /\ UNCHANGED <<stored, catalogVars, catReads, editMode, selectedItems,
                 modalVisible, focused, log, surfaced>>

\* deleteSelectedItems resumes after its setItem resolved.
deleteSelectedItemsSaved ==
  /\ Rendered
  /\ IsHead("set", "deleteSelectedItems")
  /\ stored' = Head(inflight).val
  /\ inflight' = Tail(inflight)
  /\ selectedItems' = <<>>
  /\ modalVisible' = FALSE
  /\ editMode' = IF Len(Head(inflight).ctx.arg) = 0 THEN FALSE ELSE editMode
  /\ UNCHANGED <<storeVars, catalogVars, catReads, favoriteArtTools, focused, log,
                 surfaced, historyVars>>

\* deleteSelectedItems' setItem rejects: the catch logs, the rest is skipped.
deleteSelectedItemsSaveFailed ==
  /\ Rendered
  /\ MayReject("Error deleting items")
  /\ IsHead("set", "deleteSelectedItems")
  /\ inflight' = Tail(inflight)
  /\ log' = log \cup {"Error deleting items"}
  /\ UNCHANGED <<storeVars, stored, catalogVars, catReads, screenVars, surfaced,
                 historyVars>>

(* --------------------------- specifications ---------------------------- *)

\* The application: provider, Home/Detail callers, FavoritesScreen, storage.
Next ==
  \/ \E id \in ListedIds : toggleFavorite(id)
  \/ Render
  \/ loadFavorites
  \/ loadFavoritesFailed
  \/ persistDone
  \/ persistFailed
  \/ focus
  \/ blur
  \/ screenLoadFavorites
  \/ screenLoadFavoritesFailed
  \/ screenLoadCatalog
  \/ screenLoadCatalogFailed
  \/ \E data \in Catalogs : fetchArtTools(data)
  \/ fetchArtToolsFailed
  \/ toggleEdit
  \/ \E id \in Ids : toggleSelectItem(id)
  \/ selectAllItems
  \/ requestDelete
  \/ cancelDelete
  \/ \E id \in Ids : deleteItem(id)
  \/ deleteItemSaved
  \/ deleteItemSaveFailed
  \/ deleteSelectedItems
  \/ deleteSelectedItemsSaved
  \/ deleteSelectedItemsSaveFailed

Spec == Init /\ [][Next]_vars

\* The provider alone, driven by callers that pass any listed id or any
\* array of listed ids.
NextStore ==
  \/ \E id \in ListedIds : toggleFavorite(id)
  \/ \E ids \in IdArrays : toggleFavoriteBatch(ids)
  \/ Render
  \/ loadFavorites
  \/ loadFavoritesFailed
  \/ persistDone
  \/ persistFailed

SpecStore == Init /\ [][NextStore]_vars

\* The application on a first launch: nothing is stored under "favorites".
InitFresh == Init /\ stored = NoValue

SpecFresh == InitFresh /\ [][Next]_vars

\* The provider driven by single-id toggles of any id, listed or not.
NextAnyId ==
  \/ \E id \in Ids : toggleFavorite(id)
  \/ Render
  \/ loadFavorites
  \/ loadFavoritesFailed
  \/ persistDone
  \/ persistFailed

SpecAnyId == Init /\ [][NextAnyId]_vars

\* The provider under a fair storage layer and a fair renderer: an operation
\* at the head of the queue is eventually resolved or rejected, and a
\* scheduled render eventually runs.
StoreFairness ==
  /\ WF_vars(Render)
  /\ WF_vars(loadFavorites \/ loadFavoritesFailed)
  /\ WF_vars(persistDone \/ persistFailed)

\* The provider driven by single-id toggles only.
NextToggles ==
  \/ \E id \in ListedIds : toggleFavorite(id)
  \/ Render
  \/ loadFavorites
  \/ loadFavoritesFailed
  \/ persistDone
  \/ persistFailed

SpecTogglesFair == Init /\ [][NextToggles]_vars /\ StoreFairness

(* ------------------------------- claims -------------------------------- *)

\* The set a load() of the stored text yields: its ids, or none when the key
\* is missing or the text does not parse.
LoadSet(text) ==
  IF Truthy(text) /\ ParseOk(text) THEN Range(JSONParse(text)) ELSE {}

ProviderLoadPending == \E i \in 1..Len(inflight) : inflight[i].who = "provider"

WriteFailures ==
  {"Error updating favorites", "Error deleting item", "Error deleting items"}

\* C1: once the dispatched updates are processed, an id is in the in-memory
\* set iff its single-id toggles (counted from the empty set) are odd in number.
C1_MemberIffOddToggles ==
  updQueue = <<>> => \A id \in Ids : Includes(favorites, id) <=> parity[id] = 1

\* C1 witness: from an empty store with nothing persisted, "a" then "b" were
\* toggled once each and both are members.
C1_Witness ==
  /\ ~ProviderLoadPending
  /\ stored = NoValue
  /\ updQueue = <<>>
  /\ favorites = <<"a", "b">>
  /\ parity = [id \in Ids |-> IF id \in ListedIds THEN 1 ELSE 0]

\* C2: toggles issued back-to-back lose no update: the set the provider holds
\* once its queued updates are processed is the calls applied one after the
\* other.
C2_NoLostUpdate == Settled = expected

\* C2 witness: "a" then "b" toggled before any render and before any write
\* completed; the second is still queued and both will be members.
C2_Witness ==
  /\ dirty
  /\ rendered = <<>>
  /\ stored = NoValue
  /\ Len(updQueue) = 1
  /\ favorites = <<"a">>
  /\ Settled = <<"a", "b">>

\* C3: with no write in flight or owed and no write failed, the stored value
\* loads to the in-memory set.
C3_PersistedEqualsMemory ==
  (/\ inflight = <<>>
   /\ catReads = <<>>
   /\ updQueue = <<>>
   /\ log \cap WriteFailures = {})
  => LoadSet(stored) = Range(favorites)

\* A toggleFavorite(ids) call happens in this step: its update is queued, or
\* its updater ran inside the call and issued its write.
BatchCallStep(ids) ==
  \/ updQueue' = Append(updQueue, BatchOf(ids))
  \/ /\ ~dirty
     /\ Len(inflight') = Len(inflight) + 1
     /\ inflight'[Len(inflight')].who = "store"
     /\ inflight'[Len(inflight')].ctx.kind = "batch"
     /\ inflight'[Len(inflight')].ctx.arg = ids

\* The write at the head, issued by the updater of a batch, completes.
BatchWriteDone ==
  /\ IsHead("set", "store")
  /\ Head(inflight).ctx.kind = "batch"
  /\ inflight' = Tail(inflight)
  /\ "Error updating favorites" \notin log'

\* C4: toggleFavorite(S) leaves the in-memory set equal to the previous set
\* minus S, adding nothing, whatever S holds; the write it issues holds that
\* set, and once it completed a load yields the previous set minus S.
C4_BatchRemovesOnly ==
  /\ [][\A ids \in IdArrays : BatchCallStep(ids) =>
          /\ Settled' = MinusIds(Settled, ids)
          /\ Range(Settled') \subseteq Range(Settled)
          /\ updQueue' = updQueue
               => inflight'[Len(inflight')].val
                    = JSONStringify(MinusIds(favorites, ids))]_vars
  /\ [][BatchWriteDone =>
          LoadSet(stored') = Range(Head(inflight).ctx.prev)
                               \ Range(Head(inflight).ctx.arg)]_vars

\* C4 witness: the write of toggleFavorite(["a","b"]) on the set ["a"] is in
\* flight and the in-memory set is empty.
C4_Witness ==
  /\ favorites = <<>>
  /\ \E i \in 1..Len(inflight) :
       /\ inflight[i].who = "store"
       /\ inflight[i].ctx = [kind |-> "batch", arg |-> <<"a", "b">>, prev |-> <<"a">>]

\* C5: toggleFavorite([]) changes neither the in-memory set nor, when its
\* write completes, what the stored value loads to.
C5_EmptyBatchIsNoOp ==
  /\ [][BatchCallStep(<<>>) => Settled' = Settled]_vars
  /\ [][(/\ IsHead("set", "store")
         /\ Head(inflight).ctx.kind = "batch"
         /\ Head(inflight).ctx.arg = <<>>
         /\ inflight' = Tail(inflight))
        => LoadSet(stored') = LoadSet(stored)]_vars

\* C6: the in-memory set never holds an id twice, rendered or not.
C6_NoDuplicates == NoDup(favorites) /\ NoDup(rendered) /\ NoDup(Settled)

\* C6 witness: the load has completed, toggles followed, two ids are members.
C6_Witness ==
  /\ ~ProviderLoadPending
  /\ Len(favorites) = 2
  /\ stored = JSONStringify(<<"a">>)

\* C7: every selected id is the id of a displayed entry.
C7_SelectedSubsetOfDisplayed ==
  Range(selectedItems) \subseteq Range(IdsOf(favoriteArtTools))

\* C8: outside edit mode nothing is selected.
C8_ViewingHasNoSelection == ~editMode => Len(selectedItems) = 0

\* C9: the provider's load never lets an exception out, whether its read
\* resolved or was rejected; after it ran on a
\* missing or unparseable value, a text that does not parse was logged, and
\* with no toggle made since, the in-memory set is empty.
C9_LoadNeverFails ==
  /\ ~surfaced
  /\ (~ProviderLoadPending /\ LoadSet(stored) = {} /\ stored # JSONStringify(<<>>))
     => /\ Truthy(stored) => "Error loading favorites" \in log
        /\ (inflight = <<>> /\ updQueue = <<>> /\ log \cap WriteFailures = {})
           => favorites = <<>>

\* C9 witness: the load completed on the stored text "not json".
C9_Witness ==
  /\ ~ProviderLoadPending
  /\ stored = NotJson
  /\ favorites = <<>>
  /\ "Error loading favorites" \in log

\* The write at the head, issued by an updater, is rejected in this step.
StoreWriteRejected ==
  /\ IsHead("set", "store")
  /\ stored' # Head(inflight).val
  /\ \/ inflight' = Tail(inflight)
     \/ "Error updating favorites" \in log' \ log

\* C10: a rejected write of a toggle is logged and not thrown, leaves the
\* in-memory set as toggled, and is not issued again.
C10_WriteFailureLoggedNotRetried ==
  [][StoreWriteRejected =>
       /\ "Error updating favorites" \in log'
       /\ ~surfaced'
       /\ <<favorites, rendered, updQueue, dirty>>' = <<favorites, rendered, updQueue, dirty>>
       /\ stored' = stored
       /\ inflight' = Tail(inflight)]_vars

\* C10 witness: the write of toggleFavorite("a") was rejected; "a" is a member,
\* nothing is stored and nothing is in flight.
C10_Witness ==
  /\ "Error updating favorites" \in log
  /\ favorites = <<"a">>
  /\ stored = NoValue
  /\ inflight = <<>>
  /\ updQueue = <<>>

\* C11: every write to "favorites" is issued by the updater of the store's
\* toggleFavorite; no handler of the Favorites screen writes the key.
C11_StoreIsSingleWriter ==
  \A i \in 1..Len(inflight) : inflight[i].op = "set" => inflight[i].who = "store"

\* The handler of a confirmed bulk delete ends: the write it awaited settles.
BulkDeleteEnds ==
  /\ IsHead("set", "deleteSelectedItems")
  /\ inflight' = Tail(inflight)

\* C12: confirming a bulk delete calls toggleFavorite(selected) once, removes
\* exactly the selected entries from the displayed list, and ends with nothing
\* selected and the modal closed; when the selection was the whole list and
\* the whole set, the set and the list are empty and edit mode is off.
C12_ConfirmedBulkDelete ==
  /\ [][deleteSelectedItems =>
          /\ Settled' = MinusIds(Settled, selectedItems)
          /\ \/ updQueue' = Append(updQueue, BatchOf(selectedItems))
             \/ /\ Len(inflight') = Len(inflight) + 2
                /\ inflight'[Len(inflight) + 1].ctx.kind = "batch"
                /\ inflight'[Len(inflight) + 1].ctx.arg = selectedItems
          /\ IdsOf(favoriteArtTools') = MinusIds(IdsOf(favoriteArtTools), selectedItems)
          /\ (/\ Range(selectedItems) = Range(IdsOf(favoriteArtTools))
              /\ Range(selectedItems) = Range(Settled))
             => Settled' = <<>> /\ Len(favoriteArtTools') = 0]_vars
  /\ [][BulkDeleteEnds =>
          /\ Len(selectedItems') = 0
          /\ ~modalVisible'
          /\ Len(Head(inflight).ctx.arg) = 0 => ~editMode']_vars

\* The handler of a delete made on the screen ends: its awaited write settles.
DeleteEnds ==
  /\ \/ IsHead("set", "deleteItem")
     \/ IsHead("set", "deleteSelectedItems")
  /\ inflight' = Tail(inflight)

\* C13: when a delete, swiped or confirmed in bulk, has ended and left the
\* displayed list empty, edit mode is off.
C13_LastDeleteExitsEditMode ==
  [][(DeleteEnds /\ Len(favoriteArtTools') = 0) => ~editMode']_vars

\* C14: select-all clears the selection when it is the whole set of displayed
\* ids and otherwise makes it exactly that set.
C14_SelectAllTogglesOnSetEquality ==
  [][selectAllItems =>
       Range(selectedItems') =
         IF Range(selectedItems) = Range(IdsOf(favoriteArtTools))
         THEN {} ELSE Range(IdsOf(favoriteArtTools))]_vars

\* C15: right after the screen gains focus, edit mode is off, nothing is
\* selected and the confirmation modal is closed.
C15_ActivationEntersViewingFresh ==
  [][focus => (~editMode' /\ Len(selectedItems') = 0 /\ ~modalVisible')]_vars

\* A load of the screen completes while the write of a delete handler is
\* still in flight.  Completions come in issuance order and the load's
\* getItem('favorites') has completed, so the delete was made after the load
\* was issued: the result the load carries is stale.
StaleLoadCompletes ==
  /\ screenLoadCatalog
  /\ \E i \in 1..Len(inflight) :
       inflight[i].who \in {"deleteItem", "deleteSelectedItems"}

\* C16: the result of a load overtaken by a delete is discarded: it does not
\* overwrite the displayed list.
C16_StaleLoadIsDiscarded ==
  [][StaleLoadCompletes => favoriteArtTools' = favoriteArtTools]_vars

\* The operations in flight stay in order: a step removes at most the oldest
\* one and appends new ones behind the others.
QueueKept ==
  \E k \in {0, 1} :
    /\ k <= Len(inflight)
    /\ Len(inflight') >= Len(inflight) - k
    /\ SubSeq(inflight', 1, Len(inflight) - k) = SubSeq(inflight, k + 1, Len(inflight))

\* The write of an updater at the head leaves the queue.
StoreWriteSettles ==
  /\ IsHead("set", "store")
  /\ Len(inflight') < Len(inflight)

\* C17: under a fair storage layer every write issued by a toggle is settled:
\* no operation is dropped or overtaken, the oldest one is eventually taken
\* off the queue, a queued toggle eventually issues its write, a write that
\* leaves the queue was stored or its failure logged, and nothing is thrown.
\* (The oldest operation is always eventually taken off exactly when the
\* queue either shrinks again and again or ends up empty for good.)
C17_WritesEventuallySettle ==
  /\ [][QueueKept]_vars
  /\ [][StoreWriteSettles =>
          \/ stored' = Head(inflight).val
          \/ "Error updating favorites" \in log']_vars
  /\ []~surfaced
  /\ \/ <>[](inflight = <<>>)
     \/ []<><<Len(inflight') < Len(inflight)>>_vars
  /\ (updQueue # <<>>) ~> (updQueue = <<>>)

\* C17 witness: the writes of toggleFavorite("a") and toggleFavorite("b") have
\* both completed.
C17_Witness ==
  /\ stored = JSONStringify(<<"a", "b">>)
  /\ favorites = <<"a", "b">>
  /\ inflight = <<>>
  /\ updQueue = <<>>
  /\ log = {}

\* The ids that have an entry in the catalog cache.
CatalogIds ==
  IF Truthy(artTools) /\ ParseOk(artTools) THEN Range(JSONParse(artTools)) ELSE {}

\* A load of the screen returns with what it read: after the catalog was
\* read, or at once when no favorites were read.  A load whose read was
\* rejected (screenLoadFavoritesFailed, screenLoadCatalogFailed) resolves
\* nothing: it leaves the list as it was and logs.
ScreenLoadCompletes ==
  \/ screenLoadCatalog
  \/ screenLoadFavorites /\ catReads' = catReads

\* C18: when a load of the screen completes, the displayed ids are exactly
\* the members of the in-memory set that have a catalog entry.
C18_DisplayedIsJoinOfMemoryAndCatalog ==
  [][ScreenLoadCompletes =>
       Range(IdsOf(favoriteArtTools')) = Range(Settled) \cap CatalogIds]_vars

\* C19: every selected id is a member of the in-memory set.
C19_SelectedSubsetOfFavorites ==
  Range(selectedItems) \subseteq Range(Settled)

\* C20: while the confirmation modal is shown, edit mode is on and something
\* is selected: the controller is in Viewing, Selecting or ConfirmingDelete.
C20_ConfirmingImpliesSelecting ==
  modalVisible => (editMode /\ Len(selectedItems) # 0)

\* C20 witness: the modal is shown over a selection of both displayed items.
C20_Witness ==
  /\ modalVisible
  /\ editMode
  /\ Len(selectedItems) = 2
  /\ Len(favoriteArtTools) = 2

\* C21: a press on the header button, entering or leaving edit mode, leaves
\* nothing selected.
C21_ToggleEditClearsSelection ==
  [][toggleEdit => Len(selectedItems') = 0]_vars

\* The swipe delete of the entry id is made in this step: deleteItem issues
\* its own write, the last operation in flight afterwards.
SwipeDeleteStep(id) ==
  /\ Len(inflight') > Len(inflight)
  /\ inflight'[Len(inflight')].who = "deleteItem"
  /\ inflight'[Len(inflight')].ctx.arg = <<id>>

\* C22: a swipe delete of a displayed entry leaves edit mode as it is, removes
\* that entry and no other from the displayed list, and calls
\* toggleFavorite(id) once.
C22_SwipeDeleteRemovesOneEntry ==
  [][\A id \in Ids : SwipeDeleteStep(id) =>
       /\ editMode' = editMode
       /\ Displayed(id)
       /\ IdsOf(favoriteArtTools') = Without(IdsOf(favoriteArtTools), id)
       /\ Len(favoriteArtTools') = Len(favoriteArtTools) - 1
       /\ Settled' = Flip(Settled, id)
       /\ \/ updQueue' = Append(updQueue, ToggleOf(id))
          \/ /\ updQueue' = updQueue
             /\ Len(inflight') = Len(inflight) + 2
             /\ inflight'[Len(inflight) + 1].who = "store"
             /\ inflight'[Len(inflight) + 1].ctx.kind = "toggle"
             /\ inflight'[Len(inflight) + 1].ctx.arg = <<id>>]_vars

\* C22 witness: in edit mode, "a" was just swiped away from the list [a, b].
C22_Witness ==
  /\ editMode
  /\ IdsOf(favoriteArtTools) = <<"b">>
  /\ inflight # <<>>
  /\ inflight[Len(inflight)].who = "deleteItem"
  /\ inflight[Len(inflight)].ctx.arg = <<"a">>

\* The modal is dismissed in this step without anything being issued to or
\* completed by the storage: the Cancel button or onRequestClose.
CancelStep ==
  /\ modalVisible
  /\ ~modalVisible'
  /\ inflight' = inflight

\* C23: cancelling the confirmation returns to edit mode with the selection,
\* the displayed list, the favorite set and the storage unchanged, and issues
\* no write.
C23_CancelChangesNothingElse ==
  [][CancelStep =>
       /\ editMode'
       /\ selectedItems' = selectedItems
       /\ Len(selectedItems') # 0
       /\ favoriteArtTools' = favoriteArtTools
       /\ UNCHANGED <<storeVars, storageVars, log>>]_vars

\* C23 witness: the modal can be cancelled over a selection of one of the two
\* displayed items while a write of the store is still in flight.
C23_Witness ==
  /\ ENABLED cancelDelete
  /\ Len(selectedItems) = 1
  /\ Len(favoriteArtTools) = 2
  /\ inflight # <<>>

\* C24: when the write awaited by a confirmed bulk delete fails, the handler
\* still ends with the modal closed and nothing selected, and outside edit
\* mode when the displayed list is empty.
C24_FailedBulkDeleteUnblocks ==
  [][deleteSelectedItemsSaveFailed =>
       /\ ~modalVisible'
       /\ Len(selectedItems') = 0
       /\ (Len(favoriteArtTools') = 0 => ~editMode')]_vars

\* A load of the screen ends: it returns with what it read, or one of its
\* reads is rejected and its catch has logged.
ScreenLoadEnds ==
  \/ ScreenLoadCompletes
  \/ screenLoadFavoritesFailed
  \/ screenLoadCatalogFailed

\* C25: after a load of the screen, whatever the list showed before it, the
\* displayed list holds only ids that have an entry in the catalog cache: a
\* favorite id without one is omitted, and with the cache absent the list is
\* empty and reading the absent cache logs and throws nothing.
C25_UnresolvedIdsAreOmitted ==
  [][ScreenLoadEnds =>
       /\ Range(IdsOf(favoriteArtTools')) \subseteq CatalogIds
       /\ artTools = NoValue =>
            /\ Len(favoriteArtTools') = 0
            /\ screenLoadCatalog => (log' = log /\ surfaced' = surfaced)]_vars

\* The writes in flight that a single-id toggle of the store issued.
SingleToggleWrites ==
  {i \in 1..Len(inflight) :
     inflight[i].who = "store" /\ inflight[i].ctx.kind = "toggle"}

\* C26: the set a single-id toggle produces from prevFavorites has the id
\* added after all the others when it was absent and taken out when it was
\* present; the other ids are the same, in the same order.
C26_SingleToggleKeepsOthersInOrder ==
  \A i \in SingleToggleWrites :
    LET prev == inflight[i].ctx.prev
        id == inflight[i].ctx.arg[1]
        updated == JSONParse(inflight[i].val) IN
    /\ ParseOk(inflight[i].val)
    /\ IF id \in Range(prev)
       THEN /\ id \notin Range(updated)
            /\ Len(updated) = Len(prev) - 1
            /\ updated = SelectSeq(prev, LAMBDA e : e # id)
       ELSE /\ Len(updated) = Len(prev) + 1
            /\ updated[Len(updated)] = id
            /\ SubSeq(updated, 1, Len(prev)) = prev

\* C26 witness: "c" was toggled into the set [b, a] and became its last
\* member, then "b" was toggled out of [b, a, c], which left [a, c].
C26_Witness ==
  /\ Len(inflight) = 2
  /\ SingleToggleWrites = {1, 2}
  /\ inflight[1].ctx.prev = <<"b", "a">>
  /\ inflight[1].val = JSONStringify(<<"b", "a", "c">>)
  /\ inflight[2].ctx.prev = <<"b", "a", "c">>
  /\ inflight[2].ctx.arg = <<"b">>
  /\ inflight[2].val = JSONStringify(<<"a", "c">>)

\* The in-memory set after the mutations `calls`, applied in order to s.
RECURSIVE SetAfter(_, _)
SetAfter(s, calls) ==
  IF calls = <<>> THEN s ELSE SetAfter(ApplyCall(s, Head(calls)), Tail(calls))

\* The values the mutations `calls`, applied in order to s, are to persist:
\* one per toggle or batch removal, the set that mutation produced.
RECURSIVE ValuesAfter(_, _)
ValuesAfter(s, calls) ==
  IF calls = <<>> THEN <<>>
  ELSE LET t == ApplyCall(s, Head(calls)) IN
       (IF Head(calls).kind = "set" THEN <<>> ELSE <<JSONStringify(t)>>)
         \o ValuesAfter(t, Tail(calls))

\* The operations this step issued, and the mutations that ran in it: the
\* queued ones when the queue was processed, else the one of the call.
Issued == SubSeq(inflight', Len(inflight) + 1, Len(inflight'))

MutationsRun == IF updQueue' = updQueue THEN <<Issued[1].ctx>> ELSE updQueue

\* C27: the writes the store issues in a step are, in the order of the
\* mutations that ran in it, the sets those mutations produced, and the
\* in-memory set of that step is the one the last of them produced.
C27_WritesFollowMemoryInOrder ==
  [][Len(inflight') > Len(inflight) =>
       /\ \A i \in 1..Len(Issued) : Issued[i].who = "store" /\ Issued[i].op = "set"
       /\ [i \in 1..Len(Issued) |-> Issued[i].val] = ValuesAfter(favorites, MutationsRun)
       /\ favorites' = SetAfter(favorites, MutationsRun)]_vars

\* C27 witness: two writes of the store are in flight, the second for the set
\* in memory, produced from the set the first one carries.
C27_Witness ==
  /\ ~dirty
  /\ Len(inflight) = 2
  /\ \A i \in 1..2 : inflight[i].who = "store"
  /\ inflight[2].ctx.prev = JSONParse(inflight[1].val)
  /\ inflight[2].val # inflight[1].val
  /\ JSONParse(inflight[2].val) = favorites

\* selectedItems.forEach((itemId) => { toggleFavorite(itemId); }): the bulk
\* delete of the earlier screen, one single-id toggle per selected id, each
\* on the result of the one before.
RECURSIVE ToggleEach(_, _)
ToggleEach(prev, ids) ==
  IF ids = <<>> THEN prev
  ELSE ToggleEach(SingleToggle(prev, Head(ids)), Tail(ids))

\* C28: a confirmed bulk delete leaves the same in-memory set whether the
\* store is called once with the selected array or once per selected id.
C28_BulkDeleteVariantsAgree ==
  [][deleteSelectedItems => Settled' = ToggleEach(Settled, selectedItems)]_vars

\* C29: a swipe delete of a displayed entry leaves its id out of the
\* in-memory set, whatever the set was when the entry was swiped.
C29_SwipeDeleteNeverAdds ==
  [][\A id \in Ids : SwipeDeleteStep(id) => id \notin Range(Settled')]_vars

\* The write a delete handler of the screen awaited completes, and no write
\* is left in flight or owed by a queued update.
ControllerWriteDone ==
  /\ deleteItemSaved \/ deleteSelectedItemsSaved
  /\ updQueue = <<>>
  /\ \A i \in 1..Len(inflight') : inflight'[i].op # "set"

\* C30: when the last write of a controller delete completes, the ids in memory
\* and in the persisted value that have no catalog entry, which are never
\* displayed and so were not deleted, are still in both.
C30_DeleteKeepsUnresolvedIds ==
  [][ControllerWriteDone =>
       LET kept == (Range(Settled) \cap LoadSet(stored)) \ CatalogIds IN
       /\ kept \subseteq Range(Settled')
       /\ kept \subseteq LoadSet(stored')]_vars

\* C31: an id toggled into the in-memory set before the provider's load
\* completed, and not in the persisted value the load reads, is still a
\* member once the load has completed.
C31_ToggleBeforeLoadIsKept ==
  [][loadFavorites =>
       \A id \in Ids :
         (parity[id] = 1 /\ id \in Range(Settled) /\ id \notin LoadSet(stored))
           => id \in Range(Settled')]_vars

====
